---------------------------- MODULE Spec2Model ----------------------------
(***************************************************************************)
(* A model of EazyCore (packages/eazycore/src/index.ts), its RPC layer     *)
(* (packages/eazycore/src/rpc.ts) and the worker host (bootstrap, in the   *)
(* same file).                                                             *)
(*                                                                         *)
(* Nine specifications share the variables:                                *)
(*   SpecResolver  registration and dry runs over every small wiring graph *)
(*   Spec          the start/stop lifecycle with workers                   *)
(*   SpecRpc       one worker and the calls made through its proxy         *)
(*   SpecUplink    one worker and the calls it makes through deps          *)
(*   SpecRegistry  the registration API and the service registry           *)
(*   SpecApp       the sample application after the EazyApp constructor    *)
(*   SpecRestart   the sample application, start() and stop() repeated     *)
(*   SpecWiring    dry runs over wirings with keys the type never declares *)
(*   SpecIsolation two workers side by side, each calling through its deps *)
(***************************************************************************)
EXTENDS Naturals, Sequences, FiniteSets, TLC

VARIABLES
    pluginTypes,        \* EazyCore.pluginTypes: type id -> the definition stored
    definitionsLocked,  \* EazyCore.definitionsLocked
    instances,          \* EazyCore.instances: a Map, kept in insertion order
    services,           \* PluginContext.services: id -> what is stored
    workers,            \* EazyCore.workers: id -> worker handle
    threads,            \* the worker threads ever spawned, by handle
    engine,             \* the host's control task: where start()/stop() is
    lastCall,           \* how the most recent API call ended
    phase,              \* history: what the host last did to each main instance
    startLog,           \* history: the setups invoked and workers spawned by
                        \*   the current (or last) start(), in order
    stopLog,            \* history: the instances the current (or last) stop()
                        \*   went through, in order, and what it did to each
    downlink,           \* createRpcClient of a worker: the calls made through
                        \*   the proxy, its pending map, the messages in flight
    uplink              \* createUplinkClient in a worker: the calls made through
                        \*   deps, its pending map, the messages in flight

vars == <<pluginTypes, definitionsLocked, instances, services, workers,
          threads, engine, lastCall, phase, startLog, stopLog, downlink, uplink>>

rpcVars == <<downlink, uplink>>

registryVars == <<pluginTypes, definitionsLocked, instances>>

----------------------------------------------------------------------------
(* Bounds *)

MaxInstances == 3
MaxCalls == 2           \* start() and stop() calls (not dry runs) in one behaviour
MaxAppCalls == 3        \* the same, in the behaviours of SpecRestart
MaxRpcCalls == 2        \* calls made through the proxy of a worker
MaxUplinkCalls == 2     \* calls made by a worker through deps

(* Values *)

(* A channel nobody has used: no call made, an empty pending map, no       *)
(* message in flight either way.                                           *)
NoTraffic == [calls |-> <<>>, pending |-> {}, toWorker |-> {}, toHost |-> {}]

undefined == "undefined"

InstanceIds == {"a", "b", "c"}
ExternalId  == "ext"

W(k, t) == [key |-> k, target |-> t]

(* The plugin types of the sample application (LoggerDef, DatabaseDef,     *)
(* ServerDef): requirement names in declaration order, whether a teardown  *)
(* and an entryPoint are given.                                            *)
TypeIds == {"logger-plugin", "db-plugin", "api-server"}

(* Definition objects: the one the application ships for an id, and        *)
(* another object carrying the same id.                                    *)
StandardDef == "standard"
OtherDef    == "other"

TypeDef(t) ==
    CASE t = "logger-plugin" ->
           [id |-> t, requirements |-> <<>>,
            teardown |-> FALSE, entryPoint |-> FALSE]
      [] t = "db-plugin" ->
           [id |-> t, requirements |-> <<"logger">>,
            teardown |-> TRUE, entryPoint |-> TRUE]
      [] t = "api-server" ->
           [id |-> t, requirements |-> <<"db", "logger">>,
            teardown |-> TRUE, entryPoint |-> FALSE]

(* definePlugin(...).create(id, config, wiring, mode) *)
create(t, id, config, wiring, mode) ==
    [id |-> id, typeId |-> t, config |-> config, wiring |-> wiring, mode |-> mode]

----------------------------------------------------------------------------
(* Wiring maps: an object, modelled as its entries in key insertion order. *)

RECURSIVE ObjectValues(_)
ObjectValues(wiring) ==
    IF wiring = <<>> THEN <<>>
    ELSE <<wiring[1].target>> \o ObjectValues(Tail(wiring))

WiringGet(wiring, k) ==
    IF \E i \in 1..Len(wiring) : wiring[i].key = k
    THEN wiring[CHOOSE i \in 1..Len(wiring) : wiring[i].key = k].target
    ELSE undefined

InstanceKeys == {instances[i].id : i \in 1..Len(instances)}

InstanceGet(id) == instances[CHOOSE i \in 1..Len(instances) : instances[i].id = id]

Range(s) == {s[i] : i \in 1..Len(s)}

RECURSIVE Reverse(_)
Reverse(s) == IF s = <<>> THEN <<>> ELSE Append(Reverse(Tail(s)), Head(s))

----------------------------------------------------------------------------
(* resolveExecutionOrder: the depth-first topological sort.  The traversal *)
(* state is [visited, visiting, sorted, ancestors]; err holds the path of  *)
(* the thrown "Cyclic dependency" error, <<>> while nothing was thrown.    *)

ResolveStart ==
    [visited |-> {}, visiting |-> {}, sorted |-> <<>>, ancestors |-> <<>>,
     err |-> <<>>]

(* An error message that leaves out the node that closes the cycle. *)
CyclePath_NoClose(ancestors, nodeId) == ancestors

CyclePath(ancestors, nodeId) == Append(ancestors, nodeId)

IsKnownInstance(depId) == depId \in InstanceKeys

(* A resolver that emits a node ahead of what was emitted before it. *)
FinishNode_Unshift(st, nodeId) ==
    [st EXCEPT !.visiting  = @ \ {nodeId},
               !.ancestors = SubSeq(@, 1, Len(@) - 1),
               !.visited   = @ \cup {nodeId},
               !.sorted    = <<nodeId>> \o @]

FinishNode(st, nodeId) ==
    [st EXCEPT !.visiting  = @ \ {nodeId},
               !.ancestors = SubSeq(@, 1, Len(@) - 1),
               !.visited   = @ \cup {nodeId},
               !.sorted    = Append(@, nodeId)]

(* A resolver that follows only the wiring entries whose key is a          *)
(* requirement the instance's type declares.                               *)
Dependencies_DeclaredOnly(instance) ==
    ObjectValues(SelectSeq(instance.wiring,
        LAMBDA e : e.key \in Range(TypeDef(instance.typeId).requirements)))

(* `const dependencies = Object.values(instance.wiring)` *)
Dependencies(instance) == ObjectValues(instance.wiring)

RECURSIVE visit(_, _), visitDeps(_, _)

visitDeps(dependencies, st) ==
    IF dependencies = <<>> \/ st.err # <<>> THEN st
    ELSE LET depId == Head(dependencies)
             s1 == IF IsKnownInstance(depId) THEN visit(depId, st) ELSE st
         IN visitDeps(Tail(dependencies), s1)

visit(nodeId, st) ==
    IF st.err # <<>> THEN st
    ELSE IF nodeId \in st.visited THEN st
    ELSE IF nodeId \in st.visiting
         THEN [st EXCEPT !.err = CyclePath(st.ancestors, nodeId)]
    ELSE LET s1 == [st EXCEPT !.visiting  = @ \cup {nodeId},
                              !.ancestors = Append(@, nodeId)]
             s2 == visitDeps(Dependencies(InstanceGet(nodeId)), s1)
         IN IF s2.err # <<>> THEN s2 ELSE FinishNode(s2, nodeId)

RECURSIVE visitAll(_, _)
visitAll(ids, st) ==
    IF ids = <<>> \/ st.err # <<>> THEN st
    ELSE visitAll(Tail(ids), visit(Head(ids), st))

(* A traversal whose starting points depend on the call made before. *)
KeysInOrder_ByLastCall ==
    IF lastCall.op = "start"
    THEN Reverse([i \in 1..Len(instances) |-> instances[i].id])
    ELSE [i \in 1..Len(instances) |-> instances[i].id]

(* `this.instances.keys()`: the ids in the order they were registered. *)
KeysInOrder == [i \in 1..Len(instances) |-> instances[i].id]

resolveExecutionOrder ==
    LET st == visitAll(KeysInOrder, ResolveStart)
    IN [sorted |-> st.sorted, err |-> st.err]

----------------------------------------------------------------------------
(* Maps (the registry, the worker map) as functions on the ids they hold.  *)

MapSet(m, k, v) == [x \in DOMAIN m \cup {k} |-> IF x = k THEN v ELSE m[x]]
MapDelete(m, k) == [x \in DOMAIN m \ {k} |-> m[x]]

----------------------------------------------------------------------------
(* How an API call ended: op, status, and for start()/stop() the order it  *)
(* logged or the path of the cyclic-dependency error.                      *)

Outcome(op, status, order, path) ==
    [op |-> op, status |-> status, order |-> order, path |-> path, after |-> "-"]

(* The control task: pc, the running call, its resolved order, the position *)
(* in it, the number of start()/stop() calls (not dry runs) so far, and the *)
(* deps object handed to the setup being awaited.                           *)
Idle(calls) ==
    [pc |-> "idle", op |-> "-", order |-> <<>>, idx |-> 0, calls |-> calls,
     deps |-> <<>>]

Init ==
    /\ pluginTypes = <<>>
    /\ definitionsLocked = FALSE
    /\ instances = <<>>
    /\ services = <<>>
    /\ workers = <<>>
    /\ threads = <<>>
    /\ engine = Idle(0)
    /\ lastCall = Outcome("new", "ok", <<>>, <<>>)
    /\ phase = [id \in InstanceIds |-> "none"]
    /\ startLog = <<>>
    /\ stopLog = <<>>
    /\ downlink = NoTraffic
    /\ uplink = NoTraffic

----------------------------------------------------------------------------
(* Registration *)

(* registerDefinition(def), for a definition object def whose id is t. *)
registerDefinition(t, def) ==
    /\ engine.pc = "idle"
    /\ IF definitionsLocked
       THEN /\ lastCall' = Outcome("registerDefinition", "RegistryLocked", <<>>, <<>>)
            /\ UNCHANGED pluginTypes
       ELSE IF t \in DOMAIN pluginTypes
       THEN /\ lastCall' = Outcome("registerDefinition", "DuplicateType", <<>>, <<>>)
            /\ UNCHANGED pluginTypes
       ELSE /\ pluginTypes' = MapSet(pluginTypes, t, def)
            /\ lastCall' = Outcome("registerDefinition", "ok", <<>>, <<>>)
    /\ UNCHANGED <<rpcVars, definitionsLocked, instances, services, workers, threads,
                   engine, phase, startLog, stopLog>>

(* A lock that a second call releases. *)
LockFlag_Toggle(locked) == ~locked

LockFlag(locked) == TRUE

lockDefinitions ==
    /\ engine.pc = "idle"
    /\ definitionsLocked' = LockFlag(definitionsLocked)
    /\ lastCall' = Outcome("lockDefinitions", "ok", <<>>, <<>>)
    /\ UNCHANGED <<rpcVars, pluginTypes, instances, services, workers, threads, engine,
                   phase, startLog, stopLog>>

registerPlugin(plugin) ==
    /\ engine.pc = "idle"
    /\ IF plugin.typeId \notin DOMAIN pluginTypes
       THEN /\ lastCall' = Outcome("registerPlugin", "UnknownType", <<>>, <<>>)
            /\ UNCHANGED instances
       ELSE IF plugin.id \in InstanceKeys
       THEN /\ lastCall' = Outcome("registerPlugin", "DuplicateInstance", <<>>, <<>>)
            /\ UNCHANGED instances
       ELSE /\ Len(instances) < MaxInstances
            /\ instances' = Append(instances, plugin)
            /\ lastCall' = Outcome("registerPlugin", "ok", <<>>, <<>>)
    /\ UNCHANGED <<rpcVars, pluginTypes, definitionsLocked, services, workers, threads,
                   engine, phase, startLog, stopLog>>

----------------------------------------------------------------------------
(* The service registry (PluginContext) *)

(* What the registry stores under an id: a service a setup registered, a   *)
(* value a setup returned, the proxy of a worker, or an object the host    *)
(* application registered itself through the public context.               *)
Service(kind, wid) == [kind |-> kind, wid |-> wid]

HostServices == {Service("external", 0), Service("replacement", 0)}

(* A registry that never finds an id. *)
hasService_Never(id) == FALSE

hasService(id) == id \in DOMAIN services

(* context.registerService(id, schema, impl) called by the application:    *)
(* a duplicate id throws, an impl the schema rejects throws, otherwise the *)
(* impl is stored.                                                         *)
registerService(id, impl, valid) ==
    /\ engine.pc = "idle"
    /\ IF hasService(id)
       THEN /\ lastCall' = Outcome("registerService", "DuplicateService", <<>>, <<>>)
            /\ UNCHANGED services
       ELSE IF ~valid
       THEN /\ lastCall' = Outcome("registerService", "ContractViolation", <<>>, <<>>)
            /\ UNCHANGED services
       ELSE /\ services' = MapSet(services, id, impl)
            /\ lastCall' = Outcome("registerService", "ok", <<>>, <<>>)
    /\ UNCHANGED <<rpcVars, registryVars, workers, threads, engine, phase,
                   startLog, stopLog>>

----------------------------------------------------------------------------
(* start({dryRun: true}) and stop({dryRun: true}): resolve, log, return.   *)

(* A dry run that logs the graph and goes on into the loop. *)
DryRunReturn_FallThrough(e, order) ==
    IF order = <<>> THEN e
    ELSE [pc |-> "start_loop", op |-> "start", order |-> order, idx |-> 1,
          calls |-> e.calls, deps |-> <<>>]

(* `return` in the dryRun branch: the control task is where it was. *)
DryRunReturn(e, order) == e

startDryRun ==
    /\ engine.pc = "idle"
    /\ LET r == resolveExecutionOrder IN
       /\ lastCall' = IF r.err # <<>>
                      THEN Outcome("start", "CyclicDependency", <<>>, r.err)
                      ELSE Outcome("start", "dry", r.sorted, <<>>)
       /\ engine' = DryRunReturn(engine, r.sorted)
    /\ UNCHANGED <<rpcVars, registryVars, services, workers, threads, phase,
                   startLog, stopLog>>

stopDryRun ==
    /\ engine.pc = "idle"
    /\ LET r == resolveExecutionOrder IN
       lastCall' = IF r.err # <<>>
                   THEN Outcome("stop", "CyclicDependency", <<>>, r.err)
                   ELSE Outcome("stop", "dry", Reverse(r.sorted), <<>>)
    /\ UNCHANGED <<rpcVars, registryVars, services, workers, threads, engine, phase,
                   startLog, stopLog>>

----------------------------------------------------------------------------
(* A worker thread: the instance it hosts, where bootstrap() is, how the   *)
(* setup it ran went, the TEARDOWN handshake, gracefulTeardown's timer.    *)
NewThread(id) ==
    [inst |-> id, pc |-> "boot", setup |-> "none", td |-> "none", timer |-> "none",
     service |-> FALSE]

(* worker.terminate(): a thread that already exited stays exited. *)
Terminate(th) ==
    [th EXCEPT !.pc = IF th.pc = "exited" THEN "exited" ELSE "terminated"]

----------------------------------------------------------------------------
(* start() *)

CurrentId == engine.order[engine.idx]

(* The end of one iteration of the loop of start() or stop(). *)
Advance(status) ==
    IF engine.idx < Len(engine.order)
    THEN /\ engine' = [engine EXCEPT !.pc = engine.op \o "_loop", !.idx = @ + 1,
                                     !.deps = <<>>]
         /\ UNCHANGED lastCall
    ELSE /\ engine' = Idle(engine.calls)
         /\ lastCall' = [lastCall EXCEPT !.status = status]

(* An error thrown inside start() leaves start(): nothing catches it. *)
Abort(status) ==
    /\ engine' = Idle(engine.calls)
    /\ lastCall' = [lastCall EXCEPT !.status = status]

start ==
    /\ engine.pc = "idle"
    /\ startLog' = <<>>
    /\ LET r == resolveExecutionOrder IN
       IF r.err # <<>>
       THEN /\ lastCall' = Outcome("start", "CyclicDependency", <<>>, r.err)
            /\ engine' = Idle(engine.calls + 1)
       ELSE IF r.sorted = <<>>
       THEN /\ lastCall' = Outcome("start", "ok", <<>>, <<>>)
            /\ engine' = Idle(engine.calls + 1)
       ELSE /\ lastCall' = Outcome("start", "running", r.sorted, <<>>)
            /\ engine' = [pc |-> "start_loop", op |-> "start", order |-> r.sorted,
                          idx |-> 1, calls |-> engine.calls + 1, deps |-> <<>>]
    /\ UNCHANGED <<rpcVars, registryVars, services, workers, threads, phase, stopLog>>

(* The call of a main instance's setup is awaited. *)
AwaitSetup_FireAndForget(e) ==
    IF e.idx < Len(e.order) THEN [e EXCEPT !.pc = "start_loop", !.idx = @ + 1]
    ELSE [e EXCEPT !.pc = "await_setup"]

AwaitSetup(e) == [e EXCEPT !.pc = "await_setup"]

(* The dependency loop of a main instance: the first requirement, in       *)
(* declaration order, that has no wiring or whose target is no service     *)
(* throws.                                                                 *)
ResolveDeps(plugin, type) ==
    LET reqs == type.requirements
        Missing(i) == WiringGet(plugin.wiring, reqs[i]) = undefined
        Unknown(i) == WiringGet(plugin.wiring, reqs[i]) \notin DOMAIN services
        bad == {i \in 1..Len(reqs) : Missing(i) \/ Unknown(i)}
    IN IF bad = {} THEN "ok"
       ELSE LET i == CHOOSE j \in bad : \A k \in bad : j <= k
            IN IF Missing(i) THEN "WiringMissing" ELSE "UnknownService"

(* A deps object holding a stand-in for every requirement instead of the   *)
(* service the registry stores.                                            *)
Deps_StandIn(plugin, type) ==
    [i \in 1..Len(type.requirements) |-> Service("stand-in", 0)]

(* The deps object of a main instance whose dependency loop threw nothing: *)
(* for each requirement, in declaration order, the service stored under    *)
(* the id the wiring gives.                                                *)
Deps(plugin, type) ==
    [i \in 1..Len(type.requirements) |->
        services[WiringGet(plugin.wiring, type.requirements[i])]]

(* One iteration of the loop of start(), up to `await type.setup(...)` for *)
(* a main instance, the whole of it for a worker instance.                 *)
startIter ==
    /\ engine.pc = "start_loop"
    /\ LET id     == CurrentId
           plugin == InstanceGet(id)
           type   == TypeDef(plugin.typeId)
           wid    == Len(threads) + 1
       IN
       IF plugin.config # "ok"
       THEN /\ Abort("ConfigInvalid")
            /\ UNCHANGED <<services, workers, threads, phase, startLog>>
       ELSE IF plugin.mode = "main"
       THEN IF ResolveDeps(plugin, type) # "ok"
            THEN /\ Abort(ResolveDeps(plugin, type))
                 /\ UNCHANGED <<services, workers, threads, phase, startLog>>
            ELSE /\ engine' = AwaitSetup([engine EXCEPT !.deps = Deps(plugin, type)])
                 /\ phase' = [phase EXCEPT ![id] = "running"]
                 /\ startLog' = Append(startLog, id)
                 /\ UNCHANGED <<services, workers, threads, lastCall>>
       ELSE IF ~type.entryPoint
       THEN /\ Abort("MissingEntryPoint")
            /\ UNCHANGED <<services, workers, threads, phase, startLog>>
       ELSE /\ threads' = Append(threads, NewThread(id))
            /\ workers' = MapSet(workers, id, wid)
            /\ startLog' = Append(startLog, id)
            /\ IF hasService(id)
               THEN /\ Abort("DuplicateService")
                    /\ UNCHANGED services
               ELSE /\ services' = MapSet(services, id, Service("proxy", wid))
                    /\ Advance("ok")
            /\ UNCHANGED phase
    /\ UNCHANGED <<rpcVars, registryVars, stopLog>>

(* What a main instance's setup may do: register a service under its id,   *)
(* return a value (one the type's schema accepts or not), both, neither,   *)
(* or throw.                                                               *)
SetupOutcomes == {"register", "return", "returnInvalid", "both", "neither", "throw"}

(* An engine that registers whatever a setup returns. *)
AutoRegister_Always(has, returned) == returned

(* `result && !this.context.hasService(id)`: the value a setup returned is *)
(* registered only when the registry holds nothing under the id.           *)
AutoRegister(has, returned) == returned /\ ~has

(* `await type.setup(...)` returns or throws, and the rest of the iteration *)
setupReturn(outcome) ==
    /\ engine.pc = "await_setup"
    /\ LET id == CurrentId
           has == hasService(id)
       IN
       CASE outcome = "throw" ->
              /\ phase' = [phase EXCEPT ![id] = "threw"]
              /\ Abort("SetupThrew")
              /\ UNCHANGED services
         [] outcome = "register" ->
              IF has
              THEN /\ phase' = [phase EXCEPT ![id] = "threw"]
                   /\ Abort("DuplicateService")
                   /\ UNCHANGED services
              ELSE /\ phase' = [phase EXCEPT ![id] = "done"]
                   /\ services' = MapSet(services, id, Service("registered", 0))
                   /\ Advance("ok")
         [] outcome = "both" ->
              IF has
              THEN /\ phase' = [phase EXCEPT ![id] = "threw"]
                   /\ Abort("DuplicateService")
                   /\ UNCHANGED services
              ELSE /\ phase' = [phase EXCEPT ![id] = "done"]
                   /\ services' = MapSet(services, id, Service("registered", 0))
                   /\ IF AutoRegister(TRUE, TRUE)
                      THEN Abort("DuplicateService")
                      ELSE Advance("ok")
         [] outcome = "return" ->
              /\ phase' = [phase EXCEPT ![id] = "done"]
              /\ services' = IF AutoRegister(has, TRUE)
                             THEN MapSet(services, id, Service("returned", 0))
                             ELSE services
              /\ Advance("ok")
         [] outcome = "returnInvalid" ->
              /\ phase' = [phase EXCEPT ![id] = "done"]
              /\ UNCHANGED services
              /\ IF AutoRegister(has, TRUE)
                 THEN Abort("ContractViolation")
                 ELSE Advance("ok")
         [] outcome = "neither" ->
              /\ phase' = [phase EXCEPT ![id] = "done"]
              /\ UNCHANGED services
              /\ Advance("ok")
    /\ UNCHANGED <<rpcVars, registryVars, workers, threads, startLog, stopLog>>

----------------------------------------------------------------------------
(* The worker host: bootstrap() *)

ThreadIds == 1..Len(threads)

(* import(entryPoint) and the search for the definition: found, or the     *)
(* catch block exits the worker.                                           *)
workerBoot(w, found) ==
    /\ threads[w].pc = "boot"
    /\ threads' = [threads EXCEPT ![w] =
                     IF found THEN [@ EXCEPT !.pc = "setup", !.setup = "running"]
                     ELSE [@ EXCEPT !.pc = "exited"]]
    /\ UNCHANGED <<rpcVars, registryVars, services, workers, engine, lastCall, phase,
                   startLog, stopLog>>

(* How the setup run in a worker ends: it registered or returned a service *)
(* implementation, it did neither (serviceImplementation stays null), or   *)
(* it threw.                                                               *)
WorkerSetupOutcomes == {"service", "nothing", "threw"}

(* The outcomes in the specifications where nobody calls the worker: what  *)
(* its RPC server would serve makes no difference there.                   *)
HostedSetupOutcomes == {"service", "threw"}

(* `await def.setup(...)` in the worker returns (the RPC server and the    *)
(* TEARDOWN listener are installed, WORKER_READY is posted) or throws (the *)
(* catch block exits the worker).                                          *)
workerSetupReturn(w, outcome) ==
    /\ threads[w].pc = "setup"
    /\ threads' = [threads EXCEPT ![w] =
                     IF outcome = "threw"
                     THEN [@ EXCEPT !.pc = "exited", !.setup = "threw"]
                     ELSE [@ EXCEPT !.pc = "ready", !.setup = "done",
                                    !.service = (outcome = "service")]]
    /\ UNCHANGED <<rpcVars, registryVars, services, workers, engine, lastCall, phase,
                   startLog, stopLog>>

(* The worker's TEARDOWN listener: runs the teardown and posts             *)
(* TEARDOWN_COMPLETE, with the error when the teardown threw.              *)
workerTeardown(w, threw) ==
    /\ threads[w].pc = "ready"
    /\ threads[w].td = "sent"
    /\ threads' = [threads EXCEPT ![w].td = IF threw THEN "completeErr" ELSE "complete"]
    /\ UNCHANGED <<rpcVars, registryVars, services, workers, engine, lastCall, phase,
                   startLog, stopLog>>

(* A ready worker dies (an uncaught exception, process.exit in plugin      *)
(* code).  Nothing on the host listens for the worker's exit.              *)
workerCrash(w) ==
    /\ threads[w].pc = "ready"
    /\ threads' = [threads EXCEPT ![w].pc = "exited"]
    /\ UNCHANGED <<rpcVars, registryVars, services, workers, engine, lastCall, phase,
                   startLog, stopLog>>

----------------------------------------------------------------------------
(* stop() *)

(* An entry of stopLog: the instance, what stop() did to it, and whether   *)
(* that reported an error (a teardown that threw, a TEARDOWN_COMPLETE      *)
(* carrying an error).                                                     *)
Visit(id, what) == [id |-> id, did |-> what, err |-> FALSE]

MarkError(log, err) == [log EXCEPT ![Len(log)].err = err]

(* A stop() that walks the start order. *)
StopOrder_Forward(sorted) == sorted

StopOrder(sorted) == Reverse(sorted)

stop ==
    /\ engine.pc = "idle"
    /\ stopLog' = <<>>
    /\ LET r == resolveExecutionOrder
           after == IF lastCall.op = "start" /\ lastCall.status = "ok"
                    THEN "start:ok" ELSE "other"
       IN
       IF r.err # <<>>
       THEN /\ lastCall' = Outcome("stop", "CyclicDependency", <<>>, r.err)
            /\ engine' = Idle(engine.calls + 1)
       ELSE IF r.sorted = <<>>
       THEN /\ lastCall' = [Outcome("stop", "ok", <<>>, <<>>) EXCEPT !.after = after]
            /\ engine' = Idle(engine.calls + 1)
       ELSE /\ lastCall' = [Outcome("stop", "running", StopOrder(r.sorted), <<>>)
                              EXCEPT !.after = after]
            /\ engine' = [pc |-> "stop_loop", op |-> "stop",
                          order |-> StopOrder(r.sorted), idx |-> 1,
                          calls |-> engine.calls + 1, deps |-> <<>>]
    /\ UNCHANGED <<rpcVars, registryVars, services, workers, threads, phase, startLog>>

(* One iteration of the loop of stop(), up to its first await. *)
stopIter ==
    /\ engine.pc = "stop_loop"
    /\ LET id     == CurrentId
           plugin == InstanceGet(id)
           type   == TypeDef(plugin.typeId)
       IN
       IF plugin.mode = "main" /\ type.teardown
       THEN /\ engine' = [engine EXCEPT !.pc = "await_teardown"]
            /\ phase' = [phase EXCEPT ![id] = "down"]
            /\ stopLog' = Append(stopLog, Visit(id, "teardown"))
            /\ UNCHANGED <<threads, lastCall>>
       ELSE IF plugin.mode = "worker" /\ id \in DOMAIN workers
       THEN /\ threads' = [threads EXCEPT ![workers[id]] =
                             [@ EXCEPT !.td = "sent", !.timer = "armed"]]
            /\ engine' = [engine EXCEPT !.pc = "await_graceful"]
            /\ stopLog' = Append(stopLog, Visit(id, "worker"))
            /\ UNCHANGED <<phase, lastCall>>
       ELSE /\ stopLog' = Append(stopLog, Visit(id, "none"))
            /\ Advance("ok")
            /\ UNCHANGED <<threads, phase>>
    /\ UNCHANGED <<rpcVars, registryVars, services, workers, startLog>>

(* A catch block that logs the error and throws it again. *)
CatchTeardown_Rethrow(threw) == IF threw THEN "throw" ELSE "continue"

(* The catch block in the loop of stop(): log, go on. *)
CatchTeardown(threw) == "continue"

(* `await type.teardown(id)` returns or throws; the catch logs the error. *)
teardownReturn(threw) ==
    /\ engine.pc = "await_teardown"
    /\ stopLog' = MarkError(stopLog, threw)
    /\ IF CatchTeardown(threw) = "continue"
       THEN Advance("ok")
       ELSE Abort("TeardownThrew")
    /\ UNCHANGED <<rpcVars, registryVars, services, workers, threads, phase, startLog>>

(* gracefulTeardown's listener receives TEARDOWN_COMPLETE with its id: it  *)
(* clears the timer, logs the error the message may carry, resolves.       *)
recvTeardownComplete ==
    /\ engine.pc = "await_graceful"
    /\ LET w == workers[CurrentId] IN
       /\ threads[w].td \in {"complete", "completeErr"}
       /\ threads[w].timer = "armed"
       /\ threads' = [threads EXCEPT ![w] =
                        [@ EXCEPT !.td = "received", !.timer = "cleared"]]
       /\ stopLog' = MarkError(stopLog, threads[w].td = "completeErr")
    /\ engine' = [engine EXCEPT !.pc = "after_graceful"]
    /\ UNCHANGED <<rpcVars, registryVars, services, workers, lastCall, phase, startLog>>

(* gracefulTeardown's timer fires: force kill, resolve. *)
GracefulTimeout(th) == [Terminate(th) EXCEPT !.timer = "fired"]

(* A timer callback that kills the worker and forgets to resolve. *)
GracefulResolved_Forgotten(pc) == pc

GracefulResolved(pc) == "after_graceful"

teardownTimeout ==
    /\ engine.pc = "await_graceful"
    /\ LET w == workers[CurrentId] IN
       /\ threads[w].timer = "armed"
       /\ threads' = [threads EXCEPT ![w] = GracefulTimeout(@)]
    /\ engine' = [engine EXCEPT !.pc = GracefulResolved(@)]
    /\ UNCHANGED <<rpcVars, registryVars, services, workers, lastCall, phase, startLog,
                   stopLog>>

(* After gracefulTeardown resolved: `await worker.terminate()` and         *)
(* `this.workers.delete(id)`.                                              *)
stopFinishWorker ==
    /\ engine.pc = "after_graceful"
    /\ LET id == CurrentId IN
       /\ threads' = [threads EXCEPT ![workers[id]] = Terminate(@)]
       /\ workers' = MapDelete(workers, id)
    /\ Advance("ok")
    /\ UNCHANGED <<rpcVars, registryVars, services, phase, startLog, stopLog>>

----------------------------------------------------------------------------
(* The RPC layer.  Correlation ids are fresh (nanoid): the id of a call is *)
(* its position in the sequence of calls made.                             *)

(* The methods a host calls on the proxy of the database worker: its       *)
(* service has `query`; it has no `close`.                                 *)
Methods == {"query", "close"}

(* The names a worker reads from deps: the database type requires          *)
(* `logger`; `db` is a name its wiring does not hold.                      *)
UplinkNames == {"logger", "db"}

(* What a promise holds: nothing yet, the value it resolved with, or the   *)
(* Error it was rejected with (where an Error was constructed stands for   *)
(* its stack).                                                             *)
NoValue == [none |-> TRUE]
Value(result) == [result |-> result]
ErrorObject(name, message, stack) == [name |-> name, message |-> message, stack |-> stack]

(* `new Error(message)`, constructed on the host or in the worker. *)
NewError(message, where) == ErrorObject("Error", message, where)

(* `error: err.message`: what an ERROR or UPLINK_ERROR message carries of  *)
(* the error that was caught.                                              *)
ErrorPayload(err) == err.message

(* A promise settles once: resolve and reject on a settled one do nothing. *)
PendingPromise == [state |-> "pending", value |-> NoValue]

Settle(p, state, value) ==
    IF p.state = "pending" THEN [state |-> state, value |-> value] ELSE p

RpcTimeout(method) == "RPC Timeout: Call to '" \o method \o "'"

ResultOf(method)   == "result of " \o method
MessageOf(method)  == method \o " failed"
NotAFunction(method) == method \o " is not a function"
NullService(method) == "Cannot read properties of null (reading '" \o method \o "')"

Msg(type, id, payload) == [type |-> type, id |-> id, payload |-> payload]

(* worker.postMessage of a CALL: queued on the worker's parentPort until a *)
(* `message` listener is attached to it.                                   *)
PostCall_DropUntilReady(box, id) ==
    IF threads[1].pc = "ready" THEN box \cup {id} ELSE box

PostCall(box, id) == box \cup {id}

(* A call through the proxy of worker w: mint the id, arm the timer,       *)
(* record the entry, post the CALL.  `at` is history: where the worker was *)
(* when the call was made.                                                 *)
proxyCall(w, method) ==
    /\ engine.pc = "idle"
    /\ threads[w].inst \in DOMAIN services
    /\ services[threads[w].inst] = Service("proxy", w)
    /\ Len(downlink.calls) < MaxRpcCalls
    /\ LET id == Len(downlink.calls) + 1 IN
       downlink' = [downlink EXCEPT
           !.calls    = Append(@, [method |-> method, at |-> threads[w].pc,
                                   timer |-> "armed", promise |-> PendingPromise,
                                   served |-> "no", delivered |-> FALSE,
                                   thrown |-> NoValue]),
           !.pending  = @ \cup {id},
           !.toWorker = PostCall(@, id)]
    /\ UNCHANGED <<registryVars, services, workers, threads, engine, lastCall,
                   phase, startLog, stopLog, uplink>>

(* A listener whose catch block sees only what a method threw. *)
Caught_OnlyThrown(service, method, threw) ==
    IF threw THEN NewError(MessageOf(method), "worker") ELSE NoValue

(* `await service[msg.method](...msg.args)` inside the try block: what the *)
(* catch block receives, NoValue when the call returned.  Reading a method *)
(* of the null service throws a TypeError, and so does calling a method    *)
(* the service does not have.                                              *)
Caught(service, method, threw) ==
    IF ~service THEN ErrorObject("TypeError", NullService(method), "worker")
    ELSE IF method = "close"
    THEN ErrorObject("TypeError", NotAFunction(method), "worker")
    ELSE IF threw THEN NewError(MessageOf(method), "worker")
    ELSE NoValue

(* createRpcServer's listener in a worker that installed it: invoke the    *)
(* method, post RESPONSE with what it returned or ERROR with the message   *)
(* of what it threw (calling a method the service does not have throws a   *)
(* TypeError).  `thrown` is history: the error the listener caught.        *)
serverCall(w, id, threw) ==
    /\ threads[w].pc = "ready"
    /\ id \in downlink.toWorker
    /\ LET method == downlink.calls[id].method
           err    == Caught(threads[w].service, method, threw)
           reply  == IF err # NoValue THEN Msg("ERROR", id, ErrorPayload(err))
                     ELSE Msg("RESPONSE", id, ResultOf(method))
       IN downlink' = [downlink EXCEPT
              !.toWorker = @ \ {id},
              !.toHost   = @ \cup {reply},
              !.calls[id].served = reply.type,
              !.calls[id].thrown = err]
    /\ UNCHANGED <<registryVars, services, workers, threads, engine, lastCall,
                   phase, startLog, stopLog, uplink>>

(* A listener that settles the call and keeps its entry. *)
ReplyCleanup_Leak(pending, id) == pending

(* `pending.delete(msg.id)` after a RESPONSE or an ERROR. *)
ReplyCleanup(pending, id) == pending \ {id}

(* A listener that finds an entry for every id. *)
Known_Always(pending, id) == TRUE

(* `pending.get(msg.id)?.`: is there an entry under the id. *)
Known(pending, id) == id \in pending

(* The client's `message` listener: settle the entry of the id if there is *)
(* one (its wrapped resolve/reject clears the timer), then delete the id.  *)
clientMessage(msg) ==
    /\ msg \in downlink.toHost
    /\ LET id    == msg.id
           known == Known(downlink.pending, id)
           call  == downlink.calls[id]
       IN downlink' = [downlink EXCEPT
              !.toHost  = @ \ {msg},
              !.pending = ReplyCleanup(@, id),
              !.calls[id] =
                  IF known
                  THEN [call EXCEPT
                          !.timer = "cleared",
                          !.promise = IF msg.type = "RESPONSE"
                                      THEN Settle(@, "resolved", Value(msg.payload))
                                      ELSE Settle(@, "rejected",
                                                  NewError(msg.payload, "host")),
                          !.delivered = TRUE]
                  ELSE [call EXCEPT !.delivered = TRUE]]
    /\ UNCHANGED <<registryVars, services, workers, threads, engine, lastCall,
                   phase, startLog, stopLog, uplink>>

(* A timer callback that rejects and leaves the entry in the map. *)
TimeoutCleanup_Leak(pending, id) == pending

TimeoutCleanup(pending, id) == pending \ {id}

(* The timer of a call fires: delete the entry, reject with the timeout. *)
clientTimeout(id) ==
    /\ id \in 1..Len(downlink.calls)
    /\ downlink.calls[id].timer = "armed"
    /\ downlink' = [downlink EXCEPT
           !.pending = TimeoutCleanup(@, id),
           !.calls[id] = [@ EXCEPT
               !.timer = "fired",
               !.promise = Settle(@, "rejected",
                                  NewError(RpcTimeout(downlink.calls[id].method),
                                           "host"))]]
    /\ UNCHANGED <<registryVars, services, workers, threads, engine, lastCall,
                   phase, startLog, stopLog, uplink>>

(* A call through deps[serviceName][method] in worker w, from its setup or *)
(* from a method running later: mint the id, record the entry, post the    *)
(* UPLINK_CALL.  No timer is armed.  Each worker has its own uplink port    *)
(* pair: `w` is the worker whose channel carries the call and its reply.   *)
(* `invoked` is history: the registry id whose method the server called.   *)
uplinkCall(w, serviceName) ==
    /\ threads[w].pc \in {"setup", "ready"}
    /\ Len(uplink.calls) < MaxUplinkCalls
    /\ LET id == Len(uplink.calls) + 1 IN
       uplink' = [uplink EXCEPT
           !.calls   = Append(@, [serviceName |-> serviceName, method |-> "info",
                                  promise |-> PendingPromise, overdue |-> FALSE,
                                  served |-> "no", thrown |-> NoValue,
                                  w |-> w, invoked |-> undefined]),
           !.pending = @ \cup {id},
           !.toHost  = @ \cup {id}]
    /\ UNCHANGED <<registryVars, services, workers, threads, engine, lastCall,
                   phase, startLog, stopLog, downlink>>

UplinkBehaviours == {"returns", "throws", "hangs"}

(* Servers that share one wiring table, the one of the worker spawned     *)
(* last.                                                                   *)
ServerWiring_Shared(w) == InstanceGet(threads[Len(threads)].inst).wiring

(* The `wiring` argument of createUplinkServer: start() passes the wiring  *)
(* of the instance it spawns worker w for, and the listener closes over    *)
(* it.                                                                     *)
ServerWiring(w) == InstanceGet(threads[w].inst).wiring

(* A server that looks an unwired name up in the registry all the same. *)
WiringMissing_Unchecked(serviceId) == FALSE

(* `if (!serviceId)`, for the value read from the wiring. *)
WiringMissing(serviceId) == serviceId = undefined

(* createUplinkServer's listener on the host, for the uplink port of       *)
(* worker w: look the name up in the wiring, get the service, await the    *)
(* method; reply UPLINK_RESPONSE, or UPLINK_ERROR with the message of what *)
(* was thrown.  A method whose promise never settles leaves no reply.      *)
(* `served` is history: the reply posted, "awaiting" while the method has  *)
(* not settled.                                                            *)
uplinkServe(w, id, behaviour) ==
    /\ id \in uplink.toHost
    /\ uplink.calls[id].w = w
    /\ LET call      == uplink.calls[id]
           serviceId == WiringGet(ServerWiring(w), call.serviceName)
           err ==
               IF WiringMissing(serviceId)
               THEN NewError("Wiring missing for " \o call.serviceName, "host")
               ELSE IF serviceId \notin DOMAIN services
               THEN NewError("Service '" \o serviceId \o "' not found.", "host")
               ELSE IF behaviour = "throws"
               THEN NewError(MessageOf(call.method), "host")
               ELSE NoValue
           replies ==
               IF err # NoValue
               THEN {Msg("UPLINK_ERROR", id, ErrorPayload(err))}
               ELSE IF behaviour = "returns"
               THEN {Msg("UPLINK_RESPONSE", id, ResultOf(call.method))}
               ELSE {}
       IN uplink' = [uplink EXCEPT
              !.toHost = @ \ {id},
              !.toWorker = @ \cup replies,
              !.calls[id].thrown = err,
              !.calls[id].invoked =
                  IF ~WiringMissing(serviceId) /\ serviceId \in DOMAIN services
                  THEN serviceId ELSE undefined,
              !.calls[id].served = IF err # NoValue THEN "UPLINK_ERROR"
                                   ELSE IF behaviour = "returns" THEN "UPLINK_RESPONSE"
                                   ELSE "awaiting"]
    /\ UNCHANGED <<registryVars, services, workers, threads, engine, lastCall,
                   phase, startLog, stopLog, downlink>>

(* The uplink client's `message` listener in worker w. *)
uplinkMessage(w, msg) ==
    /\ threads[w].pc \in {"setup", "ready"}
    /\ msg \in uplink.toWorker
    /\ uplink.calls[msg.id].w = w
    /\ LET id    == msg.id
           known == id \in uplink.pending
       IN uplink' = [uplink EXCEPT
              !.toWorker = @ \ {msg},
              !.pending  = @ \ {id},
              !.calls[id].promise =
                  IF known
                  THEN IF msg.type = "UPLINK_RESPONSE"
                       THEN Settle(@, "resolved", Value(msg.payload))
                       ELSE Settle(@, "rejected", NewError(msg.payload, "worker"))
                  ELSE @]
    /\ UNCHANGED <<registryVars, services, workers, threads, engine, lastCall,
                   phase, startLog, stopLog, downlink>>

(* The RPC timeout passes after an uplink call was made and no reply to it *)
(* has reached the worker.  The uplink client armed no timer: nothing runs, *)
(* `overdue` is history.                                                   *)
uplinkDeadline(w, id) ==
    /\ threads[w].pc \in {"setup", "ready"}
    /\ id \in uplink.pending
    /\ uplink.calls[id].w = w
    /\ ~uplink.calls[id].overdue
    /\ uplink' = [uplink EXCEPT !.calls[id].overdue = TRUE]
    /\ UNCHANGED <<registryVars, services, workers, threads, engine, lastCall,
                   phase, startLog, stopLog, downlink>>

----------------------------------------------------------------------------
(* Spec: the lifecycle, over the instances of an application like the      *)
(* sample one (a logger, a database that may run in a worker, a server     *)
(* using both) and its defects: an invalid config, self-wiring and mutual  *)
(* wiring, a requirement left unwired or wired to an id that is no         *)
(* service, a worker of a type without entryPoint.  The application        *)
(* registers each id once (SpecResolver registers duplicates).             *)

AppPlugins ==
    { create("logger-plugin", "a", "ok",  <<>>, "main"),
      create("logger-plugin", "a", "bad", <<>>, "main"),
      create("logger-plugin", "a", "ok",  <<W("peer", "a")>>, "main"),
      create("db-plugin",     "a", "ok",  <<W("logger", "b")>>, "main"),
      create("db-plugin",     "b", "ok",  <<W("logger", "a")>>, "worker"),
      create("db-plugin",     "b", "ok",  <<W("logger", "a")>>, "main"),
      create("db-plugin",     "b", "ok",  <<>>, "main"),
      create("logger-plugin", "b", "ok",  <<>>, "worker"),
      create("logger-plugin", "b", "ok",  <<W("peer", "b")>>, "main"),
      create("db-plugin",     "b", "ok",  <<W("logger", ExternalId)>>, "main"),
      create("api-server",    "c", "ok",  <<W("db", "b"), W("logger", "a")>>, "main"),
      create("db-plugin",     "c", "ok",  <<W("logger", "a")>>, "worker"),
      create("logger-plugin", "c", "ok",  <<>>, "main") }

(* The engine as the constructor of EazyApp leaves it before it registers  *)
(* the plugin instances: the definitions registered, the registry locked.  *)
InitApp ==
    /\ pluginTypes = [t \in TypeIds |-> StandardDef]
    /\ definitionsLocked = TRUE
    /\ instances = <<>>
    /\ services = <<>>
    /\ workers = <<>>
    /\ threads = <<>>
    /\ engine = Idle(0)
    /\ lastCall = Outcome("lockDefinitions", "ok", <<>>, <<>>)
    /\ phase = [id \in InstanceIds |-> "none"]
    /\ startLog = <<>>
    /\ stopLog = <<>>
    /\ downlink = NoTraffic
    /\ uplink = NoTraffic

Next ==
    \/ \E p \in AppPlugins : p.id \notin InstanceKeys /\ registerPlugin(p)
    \/ engine.calls < MaxCalls /\ start
    \/ startIter
    \/ \E o \in SetupOutcomes : setupReturn(o)
    \/ \E w \in ThreadIds : \E found \in BOOLEAN : workerBoot(w, found)
    \/ \E w \in ThreadIds : \E o \in HostedSetupOutcomes : workerSetupReturn(w, o)
    \/ \E w \in ThreadIds : \E threw \in BOOLEAN : workerTeardown(w, threw)
    \/ \E w \in ThreadIds : workerCrash(w)
    \/ engine.calls < MaxCalls /\ stop
    \/ stopIter
    \/ \E threw \in BOOLEAN : teardownReturn(threw)
    \/ recvTeardownComplete
    \/ teardownTimeout
    \/ stopFinishWorker

Spec == InitApp /\ [][Next]_vars

----------------------------------------------------------------------------
(* SpecApp: the sample application itself.  The constructor of EazyApp     *)
(* registers the definitions, locks the registry and registers the plugin  *)
(* instances of its configuration: a logger, the database and the server.  *)
(* The database is a worker wired to the logger, or a worker with an empty *)
(* wiring, or a main instance wired to a logger that is no instance.  The  *)
(* application may register that logger as a service itself, and may run   *)
(* start() and stop() dry.                                                 *)

SampleLogger == create("logger-plugin", "a", "ok", <<>>, "main")
SampleServer == create("api-server", "c", "ok", <<W("db", "b"), W("logger", "a")>>, "main")

SampleDatabases ==
    { create("db-plugin", "b", "ok", <<W("logger", "a")>>, "worker"),
      create("db-plugin", "b", "ok", <<>>, "worker"),
      create("db-plugin", "b", "ok", <<W("logger", ExternalId)>>, "main") }

InitSample ==
    /\ pluginTypes = [t \in TypeIds |-> StandardDef]
    /\ definitionsLocked = TRUE
    /\ \E db \in SampleDatabases : instances = <<SampleLogger, db, SampleServer>>
    /\ services = <<>>
    /\ workers = <<>>
    /\ threads = <<>>
    /\ engine = Idle(0)
    /\ lastCall = Outcome("registerPlugin", "ok", <<>>, <<>>)
    /\ phase = [id \in InstanceIds |-> "none"]
    /\ startLog = <<>>
    /\ stopLog = <<>>
    /\ downlink = NoTraffic
    /\ uplink = NoTraffic

NextApp ==
    \/ \E impl \in HostServices : registerService(ExternalId, impl, TRUE)
    \/ startDryRun
    \/ stopDryRun
    \/ engine.calls < MaxCalls /\ start
    \/ startIter
    \/ \E o \in SetupOutcomes : setupReturn(o)
    \/ \E w \in ThreadIds : \E found \in BOOLEAN : workerBoot(w, found)
    \/ \E w \in ThreadIds : \E o \in HostedSetupOutcomes : workerSetupReturn(w, o)
    \/ \E w \in ThreadIds : \E threw \in BOOLEAN : workerTeardown(w, threw)
    \/ \E w \in ThreadIds : workerCrash(w)
    \/ engine.calls < MaxCalls /\ stop
    \/ stopIter
    \/ \E threw \in BOOLEAN : teardownReturn(threw)
    \/ recvTeardownComplete
    \/ teardownTimeout
    \/ stopFinishWorker

SpecApp == InitSample /\ [][NextApp]_vars

----------------------------------------------------------------------------
(* SpecRestart: the sample application with the database in a worker,      *)
(* calling start() and stop() up to MaxAppCalls times in any order.        *)

InitRestart ==
    /\ InitSample
    /\ instances[2].mode = "worker"

NextRestart ==
    \/ engine.calls < MaxAppCalls /\ start
    \/ startIter
    \/ \E o \in SetupOutcomes : setupReturn(o)
    \/ \E w \in ThreadIds : \E found \in BOOLEAN : workerBoot(w, found)
    \/ \E w \in ThreadIds : \E o \in HostedSetupOutcomes : workerSetupReturn(w, o)
    \/ \E w \in ThreadIds : \E threw \in BOOLEAN : workerTeardown(w, threw)
    \/ \E w \in ThreadIds : workerCrash(w)
    \/ engine.calls < MaxAppCalls /\ stop
    \/ stopIter
    \/ \E threw \in BOOLEAN : teardownReturn(threw)
    \/ recvTeardownComplete
    \/ teardownTimeout
    \/ stopFinishWorker

SpecRestart == InitRestart /\ [][NextRestart]_vars

----------------------------------------------------------------------------
(* SpecResolver: every wiring graph over the instance ids with up to two   *)
(* wiring entries per instance (or one entry naming an id that is no       *)
(* instance), registered in every order.                                   *)

ResolverTypes == {"logger-plugin"}

ResolverWirings ==
    {<<>>}
    \cup {<<W("logger", t)>> : t \in InstanceIds \cup {ExternalId}}
    \cup {<<W("logger", t), W("db", u)>> : t \in InstanceIds, u \in InstanceIds}

ResolverPlugins ==
    {create("logger-plugin", id, "ok", w, "main") :
        id \in InstanceIds, w \in ResolverWirings}

NextResolver ==
    \/ \E t \in ResolverTypes : registerDefinition(t, StandardDef)
    \/ \E p \in ResolverPlugins : registerPlugin(p)
    \/ startDryRun
    \/ stopDryRun

SpecResolver == Init /\ [][NextResolver]_vars

----------------------------------------------------------------------------
(* SpecWiring: instances of a type that declares no requirement (the       *)
(* logger) and of one that declares `logger` (the database), each with no  *)
(* wiring, with an entry under `logger` or with an entry under `peer`, a   *)
(* key neither type declares; registered in every order and resolved by    *)
(* start({dryRun: true}).                                                  *)

WiringTypes == {"logger-plugin", "db-plugin"}

WiringMaps ==
    {<<>>}
    \cup {<<W("logger", t)>> : t \in InstanceIds}
    \cup {<<W("peer", t)>> : t \in InstanceIds}

WiringPlugins ==
    {create(t, id, "ok", w, "main") :
        t \in WiringTypes, id \in InstanceIds, w \in WiringMaps}

NextWiring ==
    \/ \E p \in WiringPlugins : registerPlugin(p)
    \/ startDryRun

SpecWiring == InitApp /\ [][NextWiring]_vars

----------------------------------------------------------------------------
(* SpecRegistry: the three stores before any start(): definitions (each id *)
(* offered as two different definition objects), the lock, instances (each *)
(* id offered as two different instances), and services registered by the  *)
(* application.                                                            *)

RegistryPlugins ==
    { create("logger-plugin", "a", "ok", <<>>, "main"),
      create("db-plugin",     "a", "ok", <<W("logger", ExternalId)>>, "main"),
      create("db-plugin",     "b", "ok", <<W("logger", "a")>>, "worker"),
      create("logger-plugin", "b", "ok", <<>>, "main") }

RegistryServiceIds == {"a", ExternalId}

NextRegistry ==
    \/ \E t \in TypeIds : \E def \in {StandardDef, OtherDef} : registerDefinition(t, def)
    \/ lockDefinitions
    \/ \E p \in RegistryPlugins : registerPlugin(p)
    \/ \E id \in RegistryServiceIds : \E impl \in HostServices :
          \E valid \in BOOLEAN : registerService(id, impl, valid)

SpecRegistry == Init /\ [][NextRegistry]_vars

----------------------------------------------------------------------------
(* SpecRpc and SpecUplink: one database worker after a start() that returned: the worker  *)
(* spawned and still booting, its proxy registered; with the logger its    *)
(* wiring names registered before it, or with no such instance.            *)

RpcWorker == create("db-plugin", "b", "ok", <<W("logger", "a")>>, "worker")
RpcLogger == create("logger-plugin", "a", "ok", <<>>, "main")

InitRpc ==
    /\ pluginTypes = [t \in TypeIds |-> StandardDef]
    /\ definitionsLocked = TRUE
    /\ instances \in {<<RpcLogger, RpcWorker>>, <<RpcWorker>>}
    /\ services = IF Len(instances) = 2
                  THEN MapSet(MapSet(<<>>, "a", Service("registered", 0)),
                              "b", Service("proxy", 1))
                  ELSE MapSet(<<>>, "b", Service("proxy", 1))
    /\ workers = MapSet(<<>>, "b", 1)
    /\ threads = <<NewThread("b")>>
    /\ engine = Idle(1)
    /\ startLog = [i \in 1..Len(instances) |-> instances[i].id]
    /\ lastCall = Outcome("start", "ok", startLog, <<>>)
    /\ phase = [id \in InstanceIds |->
                  IF id = "a" /\ Len(instances) = 2 THEN "done" ELSE "none"]
    /\ stopLog = <<>>
    /\ downlink = NoTraffic
    /\ uplink = NoTraffic

(* The downlink: the host calls the worker through its proxy. *)
NextRpc ==
    \/ \E found \in BOOLEAN : workerBoot(1, found)
    \/ \E o \in WorkerSetupOutcomes : workerSetupReturn(1, o)
    \/ workerCrash(1)
    \/ \E m \in Methods : proxyCall(1, m)
    \/ \E id \in downlink.toWorker : \E threw \in BOOLEAN : serverCall(1, id, threw)
    \/ \E msg \in downlink.toHost : clientMessage(msg)
    \/ \E id \in 1..Len(downlink.calls) : clientTimeout(id)

SpecRpc == InitRpc /\ [][NextRpc]_vars

(* The uplink: the worker calls the services of the host through deps. *)
NextUplink ==
    \/ \E found \in BOOLEAN : workerBoot(1, found)
    \/ \E o \in HostedSetupOutcomes : workerSetupReturn(1, o)
    \/ workerCrash(1)
    \/ \E n \in UplinkNames : uplinkCall(1, n)
    \/ \E id \in uplink.toHost : \E b \in UplinkBehaviours : uplinkServe(1, id, b)
    \/ \E msg \in uplink.toWorker : uplinkMessage(1, msg)
    \/ \E id \in uplink.pending : uplinkDeadline(1, id)

SpecUplink == InitRpc /\ [][NextUplink]_vars

----------------------------------------------------------------------------
(* SpecIsolation: two database workers running side by side after a        *)
(* start() that returned, each calling through its own deps: b with        *)
(* `logger` wired to the logger a, c with `logger` wired to b (the proxy   *)
(* of the other worker).  The registry holds a, b and c.                   *)

IsolationWorkers ==
    << create("db-plugin", "b", "ok", <<W("logger", "a")>>, "worker"),
       create("db-plugin", "c", "ok", <<W("logger", "b")>>, "worker") >>

InitIsolation ==
    /\ pluginTypes = [t \in TypeIds |-> StandardDef]
    /\ definitionsLocked = TRUE
    /\ instances = <<RpcLogger>> \o IsolationWorkers
    /\ services = MapSet(MapSet(MapSet(<<>>, "a", Service("registered", 0)),
                               "b", Service("proxy", 1)),
                        "c", Service("proxy", 2))
    /\ workers = MapSet(MapSet(<<>>, "b", 1), "c", 2)
    /\ threads = <<NewThread("b"), NewThread("c")>>
    /\ engine = Idle(1)
    /\ startLog = <<"a", "b", "c">>
    /\ lastCall = Outcome("start", "ok", startLog, <<>>)
    /\ phase = [id \in InstanceIds |-> IF id = "a" THEN "done" ELSE "none"]
    /\ stopLog = <<>>
    /\ downlink = NoTraffic
    /\ uplink = NoTraffic

NextIsolation ==
    \/ \E w \in ThreadIds : \E found \in BOOLEAN : workerBoot(w, found)
    \/ \E w \in ThreadIds : \E o \in HostedSetupOutcomes : workerSetupReturn(w, o)
    \/ \E w \in ThreadIds : workerCrash(w)
    \/ \E w \in ThreadIds : \E n \in UplinkNames : uplinkCall(w, n)
    \/ \E w \in ThreadIds : \E id \in uplink.toHost :
          \E b \in UplinkBehaviours : uplinkServe(w, id, b)
    \/ \E w \in ThreadIds : \E msg \in uplink.toWorker : uplinkMessage(w, msg)

SpecIsolation == InitIsolation /\ [][NextIsolation]_vars

----------------------------------------------------------------------------
(* The wiring graph, defined apart from the resolver: an edge runs from a  *)
(* consumer to each wiring target that is itself a registered instance.    *)

Providers(x) == Range(ObjectValues(InstanceGet(x).wiring)) \cap InstanceKeys

RECURSIVE ReachableFrom(_, _)
ReachableFrom(frontier, seen) ==
    LET next == UNION {Providers(x) : x \in frontier} \ seen
    IN IF next = {} THEN seen ELSE ReachableFrom(next, seen \cup next)

(* The instances reachable from x along one or more edges. *)
Reach(x) == ReachableFrom(Providers(x), Providers(x))

OnCycle(x) == x \in Reach(x)

Acyclic == \A x \in InstanceKeys : ~OnCycle(x)

Pos(s, x) == CHOOSE i \in 1..Len(s) : s[i] = x

IsPermutationOfInstances(order) ==
    /\ Len(order) = Cardinality(InstanceKeys)
    /\ Range(order) = InstanceKeys

ProvidersFirst(order) ==
    \A x \in InstanceKeys : \A y \in Providers(x) : Pos(order, y) < Pos(order, x)

(* C1: on an acyclic wiring graph, the order start() resolves holds every  *)
(* registered instance id exactly once and puts each wiring target that is *)
(* a registered instance before its consumer (stop() resolves its          *)
(* reverse).                                                               *)
C1_ResolvedOrderTopological ==
    (Acyclic /\ lastCall.op \in {"start", "stop"}) =>
        /\ lastCall.status # "CyclicDependency"
        /\ LET order == IF lastCall.op = "start" THEN lastCall.order
                        ELSE Reverse(lastCall.order)
           IN /\ order = resolveExecutionOrder.sorted
              /\ IsPermutationOfInstances(order)
              /\ ProvidersFirst(order)

(* Three instances, the consumer of the other two registered first. *)
C1_Witness ==
    /\ lastCall.op = "start" /\ lastCall.status = "dry"
    /\ Len(instances) = 3
    /\ \E x \in InstanceKeys : Cardinality(Providers(x)) = 2 /\ instances[1].id = x
    /\ lastCall.order # [i \in 1..3 |-> instances[i].id]

----------------------------------------------------------------------------
(* Claims about the lifecycle (Spec) *)

ModeOf(id) == InstanceGet(id).mode
TypeOf(id) == TypeDef(InstanceGet(id).typeId)

(* The path of a cyclic-dependency error ends on a node it already holds,  *)
(* and from there on every step is a wiring edge between instances: the    *)
(* path holds every node of that cycle.                                    *)
PathClosesCycle(path) ==
    /\ Len(path) >= 2
    /\ \E i \in 1..(Len(path) - 1) :
          /\ path[i] = path[Len(path)]
          /\ \A j \in i..(Len(path) - 1) :
                /\ path[j] \in InstanceKeys
                /\ path[j + 1] \in Providers(path[j])

(* C2, as amended: on a wiring graph with a cycle, start() fails with a    *)
(* cyclic-dependency error whose path holds every node of one cycle (the   *)
(* first the traversal closes), and it invokes no setup and spawns no      *)
(* worker: the loop of start() only ever runs on an acyclic graph.         *)
C2_CycleAbortsStart ==
    /\ engine.op = "start" => Acyclic
    /\ (lastCall.op = "start" /\ ~Acyclic) =>
          /\ lastCall.status = "CyclicDependency"
          /\ PathClosesCycle(lastCall.path)
          /\ startLog = <<>>

(* C2, as stated: the path holds every node of every cycle. *)
C2_PathHoldsEveryCycle ==
    (lastCall.op = "start" /\ ~Acyclic) =>
        /\ lastCall.status = "CyclicDependency"
        /\ \A x \in InstanceKeys : OnCycle(x) => x \in Range(lastCall.path)
        /\ startLog = <<>>

(* A start() that failed on a two-node cycle, on an engine that had        *)
(* started instances before.                                               *)
C2_Witness ==
    /\ lastCall.op = "start" /\ lastCall.status = "CyclicDependency"
    /\ Len(lastCall.path) = 3
    /\ engine.calls = 2
    /\ services # <<>>

(* Setup progress of the instances of the start() that lastCall describes. *)
SetupBegun(id) ==
    /\ id \in Range(startLog)
    /\ ModeOf(id) = "worker" => threads[workers[id]].setup # "none"

SetupCompleted(id) ==
    /\ id \in Range(startLog)
    /\ IF ModeOf(id) = "main" THEN phase[id] = "done"
       ELSE threads[workers[id]].setup = "done"

(* C3, as stated: for a before b in the resolved order, whatever their     *)
(* modes, the setup of a has completed when the setup of b begins (for a   *)
(* worker, the setup run in its worker host).                              *)
C3_AllSetupsSequential ==
    lastCall.op = "start" =>
        \A i, j \in 1..Len(lastCall.order) :
            (i < j /\ SetupBegun(lastCall.order[j])) =>
                SetupCompleted(lastCall.order[i])

(* C3, as amended: for a before b in the resolved order, when the setup of *)
(* b begins (the host's call for a main instance, the setup in the worker  *)
(* host for a worker), a main-mode a has completed its setup, and a        *)
(* worker-mode a has been spawned: start() does not wait for a worker's    *)
(* setup.                                                                  *)
C3_MainSetupsSequential ==
    lastCall.op = "start" =>
        \A i, j \in 1..Len(lastCall.order) :
            (i < j /\ SetupBegun(lastCall.order[j])) =>
                IF ModeOf(lastCall.order[i]) = "main"
                THEN SetupCompleted(lastCall.order[i])
                ELSE lastCall.order[i] \in Range(startLog)

(* A worker's setup running in its host after the two main instances       *)
(* before it completed theirs.                                             *)
C3_Witness ==
    /\ lastCall.op = "start"
    /\ Len(startLog) = 3
    /\ ModeOf(startLog[1]) = "main" /\ ModeOf(startLog[2]) = "main"
    /\ ModeOf(startLog[3]) = "worker"
    /\ threads[workers[startLog[3]]].setup = "running"

StopIds == [i \in 1..Len(stopLog) |-> stopLog[i].id]

ShutdownStep(id) ==
    IF ModeOf(id) = "worker" THEN "worker"
    ELSE IF TypeOf(id).teardown THEN "teardown" ELSE "none"

(* C4: a start() that succeeded, followed by stop(): start() invoked one   *)
(* setup or spawn per instance, in the resolved order O; stop() went       *)
(* through reverse(O), once each, every consumer before its providers,     *)
(* calling the teardown of each main instance that has one and tearing     *)
(* down each worker.                                                       *)
C4_StartThenStopMirror ==
    (lastCall.op = "stop" /\ lastCall.status = "ok" /\ lastCall.after = "start:ok") =>
        LET O == resolveExecutionOrder.sorted IN
        /\ startLog = O
        /\ StopIds = Reverse(O)
        /\ \A i \in 1..Len(stopLog) : stopLog[i].did = ShutdownStep(stopLog[i].id)
        /\ \A x \in InstanceKeys : \A y \in Providers(x) :
              Pos(StopIds, x) < Pos(StopIds, y)

(* Three instances with a worker between a provider and a consumer,        *)
(* registered consumer first. *)
C4_Witness ==
    /\ lastCall.op = "stop" /\ lastCall.status = "ok" /\ lastCall.after = "start:ok"
    /\ Len(stopLog) = 3
    /\ stopLog[2].did = "worker"
    /\ Providers(stopLog[1].id) # {}
    /\ instances[1].id = stopLog[1].id

AbortStatuses ==
    {"ConfigInvalid", "WiringMissing", "UnknownService", "MissingEntryPoint",
     "SetupThrew"}

TornDown(id) ==
    IF ModeOf(id) = "worker" THEN threads[workers[id]].pc = "terminated"
    ELSE TypeOf(id).teardown => phase[id] = "down"

IsPrefix(s, t) == Len(s) <= Len(t) /\ s = SubSeq(t, 1, Len(s))

(* C5: when start() aborts at an instance of the resolved order, it has    *)
(* invoked no setup beyond that instance, and when it returns its error    *)
(* every instance started before has been torn down.                       *)
C5_AbortTearsDownStarted ==
    (lastCall.op = "start" /\ lastCall.status \in AbortStatuses) =>
        /\ IsPrefix(startLog, lastCall.order)
        /\ \A id \in Range(startLog) :
              (ModeOf(id) = "worker" \/ phase[id] = "done") => TornDown(id)

(* C8: while stop() waits for a worker's TEARDOWN_COMPLETE the timer is    *)
(* armed; once it fired, the worker is terminated and stop() no longer     *)
(* waits; no error leaves stop(), which ends having gone through every     *)
(* instance of the reverse order, with every worker it tore down           *)
(* terminated and off the worker map.                                      *)
C8_StopSurvivesSilentWorker ==
    /\ engine.pc = "await_graceful" => threads[workers[CurrentId]].timer = "armed"
    /\ \A w \in ThreadIds :
          threads[w].timer = "fired" => threads[w].pc \in {"terminated", "exited"}
    /\ lastCall.op = "stop" =>
          lastCall.status \in {"running", "ok", "CyclicDependency"}
    /\ (lastCall.op = "stop" /\ lastCall.status = "ok") =>
          /\ StopIds = lastCall.order
          /\ \A i \in 1..Len(stopLog) :
                stopLog[i].did = "worker" =>
                    /\ stopLog[i].id \notin DOMAIN workers
                    /\ \E w \in ThreadIds :
                          /\ threads[w].inst = stopLog[i].id
                          /\ threads[w].timer \in {"fired", "cleared"}
                          /\ threads[w].pc \in {"terminated", "exited"}

(* stop() returned after a worker that never answered TEARDOWN was killed  *)
(* by the timer, and went on to the instance after it.                     *)
C8_Witness ==
    /\ lastCall.op = "stop" /\ lastCall.status = "ok"
    /\ \E i \in 1..Len(stopLog) :
          /\ i < Len(stopLog)
          /\ stopLog[i].did = "worker"
          /\ \E w \in ThreadIds :
                /\ threads[w].inst = stopLog[i].id
                /\ threads[w].timer = "fired"
                /\ threads[w].td = "sent"
                /\ threads[w].pc = "terminated"

----------------------------------------------------------------------------
(* Claims about the RPC layer (SpecRpc, SpecUplink) *)

DownlinkIds == 1..Len(downlink.calls)
UplinkIds   == 1..Len(uplink.calls)

TimedOut(call) ==
    [state |-> "rejected", value |-> NewError(RpcTimeout(call.method), "host")]

(* The promise of a call settled with what the worker answered. *)
SettledByReply(call) ==
    /\ call.served = "RESPONSE" =>
          call.promise = [state |-> "resolved", value |-> Value(ResultOf(call.method))]
    /\ call.served = "ERROR" =>
          /\ call.promise.state = "rejected"
          /\ call.promise.value.message
                 \in {MessageOf(call.method), NotAFunction(call.method),
                      NullService(call.method)}
    /\ call.served # "no"

(* C6: a downlink call whose timer fired (no RESPONSE or ERROR with its id *)
(* arrived while it was armed) is rejected with the timeout error naming   *)
(* its method, and its id is not in the pending map from then on; the map  *)
(* holds only calls that are unsettled with their timer armed.             *)
C6_TimeoutRejectsAndCleans ==
    \A id \in DownlinkIds :
        LET call == downlink.calls[id] IN
        /\ call.timer = "fired" =>
              /\ call.promise = TimedOut(call)
              /\ id \notin downlink.pending
        /\ id \in downlink.pending =>
              /\ call.timer = "armed"
              /\ call.promise.state = "pending"
        /\ call.timer = "cleared" => call.promise # TimedOut(call)

(* A call that timed out while the worker was booting; the worker then     *)
(* answered it and the late reply found no entry.                          *)
C6_Witness ==
    \E id \in DownlinkIds :
        LET call == downlink.calls[id] IN
        /\ call.timer = "fired"
        /\ call.served = "RESPONSE"
        /\ call.delivered
        /\ call.promise = TimedOut(call)
        /\ downlink.pending = {}

(* C7: an uplink call to which no reply arrived before the RPC deadline is *)
(* rejected with the timeout error and its id is off the uplink pending    *)
(* map.                                                                    *)
C7_UplinkTimeoutRejects ==
    \A id \in UplinkIds :
        LET call == uplink.calls[id] IN
        call.overdue =>
            /\ call.promise = TimedOut(call)
            /\ id \notin uplink.pending

EarlyCall(call) == call.at \in {"boot", "setup"}

(* The CALL of a call made before the worker was ready stays queued for    *)
(* the worker, as long as it lives, until its server handles it.           *)
EarlyCallNotLost(id) ==
    (/\ EarlyCall(downlink.calls[id])
     /\ downlink.calls[id].served = "no"
     /\ threads[1].pc \in {"boot", "setup", "ready"})
        => id \in downlink.toWorker

(* C9, as stated: a call made through the proxy before WORKER_READY is not *)
(* lost, and once the worker has handled it and the reply reached the host *)
(* the call has resolved with the method's result or rejected with its     *)
(* error.                                                                  *)
C9_EarlyCallsCompleteWithReply ==
    \A id \in DownlinkIds :
        LET call == downlink.calls[id] IN
        /\ EarlyCallNotLost(id)
        /\ (EarlyCall(call) /\ call.delivered) => SettledByReply(call)

(* C9, as amended: a call made through the proxy before WORKER_READY is    *)
(* not lost; once the worker has handled it and the reply reached the host *)
(* the call has resolved with the method's result or rejected with its     *)
(* error, unless its timer (armed when the call was made) fired first: the *)
(* call was then rejected with the timeout error and stays so.             *)
C9_EarlyCallsBuffered ==
    \A id \in DownlinkIds :
        LET call == downlink.calls[id] IN
        /\ EarlyCallNotLost(id)
        /\ (EarlyCall(call) /\ call.delivered) =>
              IF call.timer = "fired"
              THEN call.promise = TimedOut(call) /\ call.served # "no"
              ELSE SettledByReply(call) /\ call.timer = "cleared"

(* Two calls made while the worker was importing its entry point, one      *)
(* resolved with the result and one rejected with the method's error.      *)
C9_Witness ==
    /\ Len(downlink.calls) = 2
    /\ \A id \in DownlinkIds :
          /\ downlink.calls[id].at = "boot"
          /\ downlink.calls[id].delivered
          /\ downlink.calls[id].timer = "cleared"
    /\ \E id \in DownlinkIds : downlink.calls[id].promise.state = "resolved"
    /\ \E id \in DownlinkIds : downlink.calls[id].promise.state = "rejected"

(* C10: once a worker that had become ready has crashed, no call made to   *)
(* it before the crash is still pending, and none of them waits for its    *)
(* timer: each was rejected (WorkerGone) when the worker went.             *)
C10_CrashRejectsOutstanding ==
    (threads[1].pc = "exited" /\ threads[1].setup = "done") =>
        \A id \in DownlinkIds :
            LET call == downlink.calls[id] IN
            call.at # "exited" =>
                /\ call.promise.state # "pending"
                /\ call.timer # "armed"
                /\ id \notin downlink.pending

----------------------------------------------------------------------------
(* Claims about spawn failures, the registry and the rest of the lifecycle *)

(* The worker host of thread w exited before it became ready: the import   *)
(* or the search for the definition failed, or the setup threw.            *)
SpawnFailed(w) == threads[w].pc = "exited" /\ threads[w].setup # "done"

(* The start() that lastCall describes spawned thread w. *)
SpawnedByLastStart(w) ==
    /\ lastCall.op = "start"
    /\ threads[w].inst \in Range(startLog)
    /\ threads[w].inst \in DOMAIN workers
    /\ workers[threads[w].inst] = w

(* C11: a start() that spawned a worker whose host failed while spawning   *)
(* does not complete successfully.                                         *)
C11_SpawnFailureAbortsStart ==
    \A w \in ThreadIds :
        (SpawnedByLastStart(w) /\ SpawnFailed(w)) => lastCall.status # "ok"

(* C12: from a state in which the registry is locked, every step leaves it *)
(* locked and leaves the registered types as they are, and a               *)
(* registerDefinition call made in such a state ends with the              *)
(* registry-locked error.                                                  *)
C12_LockMonotone ==
    [][definitionsLocked =>
          /\ definitionsLocked'
          /\ pluginTypes' = pluginTypes
          /\ lastCall'.op = "registerDefinition" =>
                lastCall'.status = "RegistryLocked"]_vars

(* A registerDefinition of a type not registered before, refused by the    *)
(* lock.                                                                   *)
C12_Witness ==
    /\ definitionsLocked
    /\ lastCall.op = "registerDefinition"
    /\ lastCall.status = "RegistryLocked"
    /\ DOMAIN pluginTypes # {}
    /\ DOMAIN pluginTypes # TypeIds

(* Every entry of map m is in map n with the same value. *)
Preserved(m, n) == \A k \in DOMAIN m : k \in DOMAIN n /\ n[k] = m[k]

FullyWired(id) ==
    LET reqs == TypeOf(id).requirements IN
    \A i \in 1..Len(reqs) : WiringGet(InstanceGet(id).wiring, reqs[i]) # undefined

(* C14: every instance start() has started (its setup invoked, or its      *)
(* worker spawned) is fully wired, and a start() that completed had no     *)
(* instance lacking a wiring entry.                                        *)
C14_StartedInstancesFullyWired ==
    /\ \A id \in Range(startLog) : FullyWired(id)
    /\ (lastCall.op = "start" /\ lastCall.status = "ok") =>
          \A id \in InstanceKeys : FullyWired(id)

(* The requirements of instance id whose wiring target is the id that is   *)
(* no instance.                                                            *)
ExternalReqs(id) ==
    {i \in 1..Len(TypeOf(id).requirements) :
        WiringGet(InstanceGet(id).wiring, TypeOf(id).requirements[i]) = ExternalId}

(* C15: a wiring target that is no instance never shows in the resolved    *)
(* order and never makes a cycle error; and when a service is registered   *)
(* under that id, the iteration of start() for a main instance wired to it *)
(* throws nothing and calls the setup with exactly that service for the    *)
(* requirement.                                                            *)
C15_ExternalWiringIgnored ==
    /\ [](/\ ExternalId \notin InstanceKeys
          /\ ExternalId \notin Range(resolveExecutionOrder.sorted)
          /\ ExternalId \notin Range(lastCall.order)
          /\ lastCall.status # "CyclicDependency")
    /\ [][(/\ engine.pc = "start_loop"
           /\ engine' # engine
           /\ ModeOf(CurrentId) = "main"
           /\ ExternalReqs(CurrentId) # {}
           /\ ExternalId \in DOMAIN services)
          => /\ engine'.pc = "await_setup"
             /\ \A i \in ExternalReqs(CurrentId) :
                   engine'.deps[i] = services[ExternalId]
             /\ services' = services]_vars

(* A start() that completed on the application whose database is wired to  *)
(* the logger the application registered itself.                           *)
C15_Witness ==
    /\ lastCall.op = "start" /\ lastCall.status = "ok"
    /\ ExternalReqs("b") # {}
    /\ ExternalId \in DOMAIN services
    /\ services[ExternalId] = Service("replacement", 0)
    /\ phase["b"] = "done"
    /\ lastCall.order = <<"a", "b", "c">>

(* What stop() does to an instance it goes through: the shutdown step of   *)
(* its mode, nothing for a worker instance that has no worker record.      *)
StopDid(entry) ==
    IF ModeOf(entry.id) = "worker"
    THEN entry.did \in {"worker", "none"}
    ELSE entry.did = ShutdownStep(entry.id)

(* C16: no error of a teardown leaves stop(): whatever the teardowns       *)
(* before it reported, stop() goes through the instances in the reverse    *)
(* order it resolved, doing the shutdown step of each, and returns         *)
(* normally after the last.                                                *)
C16_TeardownErrorsSuppressed ==
    lastCall.op = "stop" =>
        /\ lastCall.status \in {"running", "ok", "CyclicDependency"}
        /\ IsPrefix(StopIds, lastCall.order)
        /\ \A i \in 1..Len(stopLog) : StopDid(stopLog[i])
        /\ lastCall.status = "ok" => Len(stopLog) = Len(lastCall.order)
        /\ (lastCall.status = "running" /\ engine.pc = "stop_loop") =>
              Len(stopLog) = engine.idx - 1

(* A stop() that returned after the teardown of the server threw and the   *)
(* worker of the database reported an error, and still went on to the      *)
(* logger.                                                                 *)
C16_Witness ==
    /\ lastCall.op = "stop" /\ lastCall.status = "ok"
    /\ Len(stopLog) = 3
    /\ stopLog[1].did = "teardown" /\ stopLog[1].err
    /\ stopLog[2].did = "worker" /\ stopLog[2].err
    /\ stopLog[3].did = "none"

(* C17: a dry run of start() or stop() returns the order it resolved and   *)
(* changes nothing else: no setup or teardown is invoked, no worker is     *)
(* spawned or terminated, the service registry, the worker map, the type   *)
(* store and the instance store stay as they are, and the call has         *)
(* returned.                                                               *)
C17_DryRunChangesNothing ==
    [][(lastCall' # lastCall /\ lastCall'.status = "dry") =>
          /\ UNCHANGED <<pluginTypes, definitionsLocked, instances, services,
                         workers, threads, phase, startLog, stopLog, rpcVars>>
          /\ engine.pc = "idle"
          /\ engine' = engine
          /\ lastCall'.order = IF lastCall'.op = "start"
                               THEN resolveExecutionOrder.sorted
                               ELSE Reverse(resolveExecutionOrder.sorted)]_vars

(* A dry stop() after start() completed, with the worker of the database   *)
(* ready and still in the worker map.                                      *)
C17_Witness ==
    /\ lastCall.op = "stop" /\ lastCall.status = "dry"
    /\ lastCall.order = <<"c", "b", "a">>
    /\ "b" \in DOMAIN workers
    /\ threads[workers["b"]].pc = "ready"
    /\ DOMAIN services = {"a", "b"}
    /\ startLog = <<"a", "b", "c">>
    /\ stopLog = <<>>

(* The iteration of start() went on after the setup: nothing was thrown. *)
SetupAccepted ==
    /\ lastCall'.status \in {"running", "ok"}
    /\ engine'.pc \in {"start_loop", "idle"}
    /\ phase'[CurrentId] = "done"

(* C18: when the setup of a main instance, with nothing stored under its   *)
(* id before, registered a service under the id and returned a value, the  *)
(* registry holds the registered service and no error is raised; when it   *)
(* only returned a value that passes validation, the registry holds that   *)
(* value.  Either way no other entry of the registry changes.              *)
C18_RegisteredServiceWins ==
    [][(engine.pc = "await_setup" /\ ~hasService(CurrentId)) =>
          /\ setupReturn("both") =>
                /\ services' = MapSet(services, CurrentId, Service("registered", 0))
                /\ SetupAccepted
          /\ setupReturn("return") =>
                /\ services' = MapSet(services, CurrentId, Service("returned", 0))
                /\ SetupAccepted]_vars

(* A start() that completed with the value the logger's setup returned in  *)
(* the registry, and next to it a service a setup registered.              *)
C18_Witness ==
    /\ lastCall.op = "start" /\ lastCall.status = "ok"
    /\ "a" \in DOMAIN services /\ services["a"] = Service("returned", 0)
    /\ "c" \in DOMAIN services /\ services["c"] = Service("registered", 0)
    /\ phase["a"] = "done" /\ phase["c"] = "done"

(* A worker thread that is no longer running, whatever ended it. *)
Ended(w) == threads[w].pc \in {"terminated", "exited"}

killAllWorkersSync == {workers[id] : id \in DOMAIN workers}

----------------------------------------------------------------------------
(* Claims about determinism, the two channels and repeated start and stop  *)

(* The start order a logged order stands for. *)
StartOrderOf(call) == IF call.op = "start" THEN call.order ELSE Reverse(call.order)

SameError(call) ==
    /\ call.promise.value.name = call.thrown.name
    /\ call.promise.value.message = call.thrown.message
    /\ call.promise.value.stack = call.thrown.stack

(* A call rejected by the reply that reported what the remote side threw. *)
RejectedByReply(call) ==
    /\ call.thrown # NoValue
    /\ call.promise.state = "rejected"
    /\ call.promise.value.message = ErrorPayload(call.thrown)

(* C22: when a remote method throws an error, on the downlink or on the    *)
(* uplink, the error the caller's call is rejected with has the name, the  *)
(* message and the stack of the error thrown.                              *)
C22_ErrorRoundTrip ==
    /\ \A id \in DownlinkIds :
          RejectedByReply(downlink.calls[id]) => SameError(downlink.calls[id])
    /\ \A id \in UplinkIds :
          RejectedByReply(uplink.calls[id]) => SameError(uplink.calls[id])

(* The replies to uplink call id that are on their way to the worker. *)
UplinkReplies(id) == {m \in uplink.toWorker : m.id = id}

(* The id the wiring of the worker's instance gives for the name a call    *)
(* asked for.                                                              *)
WiredTarget(call) == WiringGet(InstanceGet(threads[1].inst).wiring, call.serviceName)

(* The reply the uplink server owes a call it has answered. *)
UplinkReplyOwed(id) ==
    LET call == uplink.calls[id]
        serviceId == WiredTarget(call)
    IN IF serviceId = undefined
       THEN Msg("UPLINK_ERROR", id, "Wiring missing for " \o call.serviceName)
       ELSE IF serviceId \notin DOMAIN services
       THEN Msg("UPLINK_ERROR", id, "Service '" \o serviceId \o "' not found.")
       ELSE IF call.thrown # NoValue
       THEN Msg("UPLINK_ERROR", id, MessageOf(call.method))
       ELSE Msg("UPLINK_RESPONSE", id, ResultOf(call.method))

(* C23: the uplink server answers an UPLINK_CALL with exactly one reply,   *)
(* carrying the id of the call: UPLINK_ERROR "Wiring missing for <name>"   *)
(* when the wiring has no entry for the name, UPLINK_ERROR when the wired  *)
(* id is not in the registry or the method threw, UPLINK_RESPONSE with the *)
(* method's result otherwise.  The reply is on its way to the worker until *)
(* the client takes it, and no other message is; a call not yet handled,   *)
(* or whose method has not settled, has no reply.                          *)
C23_UplinkServerReplies ==
    /\ \A m \in uplink.toWorker : m.id \in UplinkIds
    /\ \A id \in UplinkIds :
          LET call == uplink.calls[id] IN
          /\ call.served = "no" <=> id \in uplink.toHost
          /\ call.served \in {"no", "awaiting"} =>
                /\ UplinkReplies(id) = {}
                /\ call.promise.state = "pending"
          /\ call.served \in {"UPLINK_RESPONSE", "UPLINK_ERROR"} =>
                /\ UplinkReplyOwed(id).type = call.served
                /\ call.served = "UPLINK_RESPONSE" <=>
                      (WiredTarget(call) \in DOMAIN services /\ call.thrown = NoValue)
                /\ IF call.promise.state = "pending"
                   THEN UplinkReplies(id) = {UplinkReplyOwed(id)}
                   ELSE UplinkReplies(id) = {}

(* Both calls answered and the replies not yet taken: one for a name the   *)
(* wiring does not hold, one whose method returned.                        *)
C23_Witness ==
    /\ Len(uplink.calls) = 2
    /\ uplink.toHost = {}
    /\ \E i, j \in UplinkIds :
          /\ Msg("UPLINK_ERROR", i, "Wiring missing for db") \in uplink.toWorker
          /\ Msg("UPLINK_RESPONSE", j, ResultOf("info")) \in uplink.toWorker

(* The replies to downlink call id that are on their way to the host. *)
DownlinkReplies(id) == {m \in downlink.toHost : m.id = id}

(* The reply the worker's server owes a CALL it has handled. *)
DownlinkReplyOwed(id) ==
    LET call == downlink.calls[id] IN
    IF call.thrown # NoValue
    THEN Msg("ERROR", id, call.thrown.message)
    ELSE Msg("RESPONSE", id, ResultOf(call.method))

(* C24: the worker's server answers a CALL it received with exactly one    *)
(* reply carrying the id of the call: RESPONSE with the result when the    *)
(* method returned, ERROR when it threw, and ERROR too when the worker has *)
(* no service or the service has no such method.  The reply is on its way  *)
(* to the host until the client takes it, and no other message is; a CALL  *)
(* it has not received has no reply.                                       *)
C24_DownlinkServerReplies ==
    /\ \A m \in downlink.toHost : m.id \in DownlinkIds
    /\ \A id \in DownlinkIds :
          LET call == downlink.calls[id] IN
          /\ call.served = "no" <=> id \in downlink.toWorker
          /\ call.served = "no" => DownlinkReplies(id) = {} /\ ~call.delivered
          /\ call.served # "no" =>
                /\ call.served = DownlinkReplyOwed(id).type
                /\ call.served = "RESPONSE" <=>
                      (threads[1].service /\ call.method = "query"
                                          /\ call.thrown = NoValue)
                /\ ~threads[1].service =>
                      call.thrown = ErrorObject("TypeError", NullService(call.method),
                                                "worker")
                /\ (threads[1].service /\ call.method = "close") =>
                      call.thrown = ErrorObject("TypeError", NotAFunction(call.method),
                                                "worker")
                /\ DownlinkReplies(id) =
                      IF call.delivered THEN {} ELSE {DownlinkReplyOwed(id)}

(* A worker whose setup left no service has answered two calls, and both   *)
(* ERROR replies are on their way.                                         *)
C24_Witness ==
    /\ threads[1].pc = "ready" /\ ~threads[1].service
    /\ Len(downlink.calls) = 2
    /\ downlink.toWorker = {}
    /\ \A id \in DownlinkIds :
          Msg("ERROR", id, NullService(downlink.calls[id].method)) \in downlink.toHost

(* What the caller and the client hold of a downlink call. *)
CallView(call) == [promise |-> call.promise, timer |-> call.timer]

(* C25: a RESPONSE or ERROR whose id is not in the pending map is dropped. *)
(* Taking it settles no call, clears no timer and leaves the pending map   *)
(* as it was; a call that timed out stays rejected with the timeout error  *)
(* when its late reply arrives.                                            *)
C25_UnknownIdsDropped ==
    [][\A msg \in downlink.toHost :
          (clientMessage(msg) /\ msg.id \notin downlink.pending) =>
              /\ downlink'.pending = downlink.pending
              /\ \A id \in DownlinkIds :
                    CallView(downlink'.calls[id]) = CallView(downlink.calls[id])
              /\ downlink.calls[msg.id].timer = "fired"
              /\ downlink'.calls[msg.id].promise = TimedOut(downlink.calls[msg.id])]_vars

(* A late RESPONSE was taken while another call was still outstanding: the *)
(* first call stays rejected with the timeout error, the other pending.    *)
C25_Witness ==
    /\ Len(downlink.calls) = 2
    /\ \E i, j \in DownlinkIds :
          /\ downlink.calls[i].served = "RESPONSE"
          /\ downlink.calls[i].delivered
          /\ downlink.calls[i].promise = TimedOut(downlink.calls[i])
          /\ downlink.calls[j].promise.state = "pending"
          /\ downlink.pending = {j}

(* C26: a worker goes spawning -> ready -> tearing down -> terminated.     *)
(* The host sends TEARDOWN only to a worker that has become ready, never   *)
(* to one that has ended, and the worker map keeps no record of a worker   *)
(* that has ended (but for the one stop() is about to delete).             *)
C26_WorkerLifecycle ==
    /\ [][\A w \in ThreadIds :
             (threads[w].td = "none" /\ threads'[w].td = "sent") =>
                 threads[w].pc = "ready"]_vars
    /\ [](\A id \in DOMAIN workers :
             Ended(workers[id]) =>
                 /\ engine.pc \in {"await_graceful", "after_graceful"}
                 /\ CurrentId = id)

(* C27: the pending map of the downlink client holds exactly the ids of    *)
(* the calls made and not yet settled, and a call settles once: a settled  *)
(* promise never changes, and what settled it is whichever came first, the *)
(* reply (its timer was cleared) or the timeout (its timer fired).         *)
C27_PendingMapExact ==
    /\ [](/\ downlink.pending \subseteq DownlinkIds
          /\ \A id \in DownlinkIds :
                LET call == downlink.calls[id] IN
                /\ id \in downlink.pending <=> call.promise.state = "pending"
                /\ call.timer = "armed" <=> call.promise.state = "pending"
                /\ call.timer = "fired" => call.promise = TimedOut(call)
                /\ call.timer = "cleared" => SettledByReply(call) /\ call.delivered)
    /\ [][\A id \in DownlinkIds :
             downlink.calls[id].promise.state # "pending" =>
                 downlink'.calls[id].promise = downlink.calls[id].promise]_vars

(* Two calls, both answered by the worker and both replies taken: the one  *)
(* whose timer fired first stays rejected with the timeout error, the one  *)
(* whose reply came first is resolved; the map is empty.                   *)
C27_Witness ==
    /\ Len(downlink.calls) = 2
    /\ downlink.pending = {}
    /\ \A id \in DownlinkIds :
          downlink.calls[id].served = "RESPONSE" /\ downlink.calls[id].delivered
    /\ \E i, j \in DownlinkIds :
          /\ downlink.calls[i].timer = "fired"
          /\ downlink.calls[i].promise = TimedOut(downlink.calls[i])
          /\ downlink.calls[j].timer = "cleared"
          /\ downlink.calls[j].promise.state = "resolved"

(* C28: the teardown of a main instance is invoked only when a start() ran *)
(* its setup to completion and no teardown has been invoked for it since.  *)
C28_TeardownOnlyIfSetUp ==
    [][(engine.pc = "stop_loop" /\ engine'.pc = "await_teardown") =>
          phase[CurrentId] = "done"]_vars

Live(w) == ~Ended(w)

(* C29: at most one live worker thread exists per instance id, and a live  *)
(* worker thread is the one the worker map records under its id.           *)
C29_NoOrphanWorkers ==
    /\ \A v, w \in ThreadIds :
          (Live(v) /\ Live(w) /\ threads[v].inst = threads[w].inst) => v = w
    /\ \A w \in ThreadIds :
          Live(w) => /\ threads[w].inst \in DOMAIN workers
                     /\ workers[threads[w].inst] = w

(* C30: the service registry only grows.  No step removes an id from it or *)
(* replaces the value stored under an id, whether it belongs to a          *)
(* registration, to start(), to stop() or to a worker ending.              *)
C30_RegistryOnlyGrows ==
    [][/\ DOMAIN services \subseteq DOMAIN services'
       /\ \A id \in DOMAIN services : services'[id] = services[id]]_vars

(* After a start() and a stop(), a second start() met the entries the      *)
(* first one left: the proxy of the worker that stop() terminated is still *)
(* stored under b, and registering the proxy of the new worker threw.      *)
C30_Witness ==
    /\ engine.calls = 3 /\ engine.pc = "idle"
    /\ lastCall.op = "start" /\ lastCall.status = "DuplicateService"
    /\ "b" \in DOMAIN services
    /\ services["b"] = Service("proxy", 1)
    /\ threads[1].pc = "terminated"
    /\ Len(threads) = 2
    /\ "a" \in DOMAIN services

----------------------------------------------------------------------------
(* Claims about undeclared wiring keys and the isolation of the uplink     *)

(* The wiring entries of an instance under keys its type does not declare  *)
(* as requirements, and those of them whose target is a registered         *)
(* instance.                                                               *)
UndeclaredEntries(x) ==
    {e \in Range(x.wiring) : e.key \notin Range(TypeDef(x.typeId).requirements)}

UndeclaredProviders(id) ==
    {e.target : e \in UndeclaredEntries(InstanceGet(id))} \cap InstanceKeys

RECURSIVE UndeclaredReach(_, _)
UndeclaredReach(frontier, seen) ==
    LET next == UNION {UndeclaredProviders(x) : x \in frontier} \ seen
    IN IF next = {} THEN seen ELSE UndeclaredReach(next, seen \cup next)

(* A cycle made of undeclared entries alone. *)
UndeclaredCycle ==
    \E x \in InstanceKeys :
        x \in UndeclaredReach(UndeclaredProviders(x), UndeclaredProviders(x))

(* C31: the resolver makes an edge of every wiring entry, also of one      *)
(* under a key the type does not declare: in the order start() resolves,   *)
(* the target of such an entry (when a registered instance) comes before   *)
(* the consumer, and a cycle made of such entries alone makes start() fail *)
(* with the cyclic-dependency error.                                       *)
C31_UndeclaredWiringMakesEdges ==
    lastCall.op = "start" =>
        /\ lastCall.status = "dry" =>
              \A x \in InstanceKeys : \A y \in UndeclaredProviders(x) :
                  Pos(lastCall.order, y) < Pos(lastCall.order, x)
        /\ UndeclaredCycle =>
              lastCall.status = "CyclicDependency" /\ PathClosesCycle(lastCall.path)

(* A database registered first with `peer` wired to the logger b, and the  *)
(* logger b with `logger` wired back to it: no entry is under a declared   *)
(* key, and start() failed with the path a -> b -> a.                      *)
C31_Witness ==
    /\ Len(instances) = 2
    /\ instances[1] = create("db-plugin", "a", "ok", <<W("peer", "b")>>, "main")
    /\ instances[2] = create("logger-plugin", "b", "ok", <<W("logger", "a")>>, "main")
    /\ lastCall.op = "start" /\ lastCall.status = "CyclicDependency"
    /\ lastCall.path = <<"a", "b", "a">>

(* The wiring map of the instance that worker w was spawned for, read from *)
(* the instance table by the instance's id.                                *)
OwnWiring(w) ==
    LET own == {i \in 1..Len(instances) : instances[i].id = threads[w].inst}
    IN  instances[CHOOSE i \in own : TRUE].wiring

OwnTargets(w) == {e.target : e \in Range(OwnWiring(w))}

OwnTargetOf(w, name) == {e.target : e \in {x \in Range(OwnWiring(w)) : x.key = name}}

(* C32: a call arriving on a worker's uplink channel invokes a registry    *)
(* service only if that service's id is the target its own instance's      *)
(* wiring gives for the requested name; a name its wiring does not hold is *)
(* answered with UPLINK_ERROR and invokes nothing, whatever the registry   *)
(* holds and whatever the other worker's wiring says.                      *)
C32_UplinkIsolation ==
    \A id \in DOMAIN uplink.calls :
        LET call == uplink.calls[id]
        IN  /\ call.invoked # undefined =>
                  /\ call.invoked \in OwnTargets(call.w)
                  /\ call.invoked \in OwnTargetOf(call.w, call.serviceName)
            /\ (call.served # "no" /\ OwnTargetOf(call.w, call.serviceName) = {}) =>
                  /\ call.invoked = undefined
                  /\ call.served = "UPLINK_ERROR"

(* Both workers run and each has had a `logger` call answered: b's reached *)
(* a, c's reached b.                                                       *)
C32_Witness ==
    /\ \A w \in ThreadIds : threads[w].pc \in {"setup", "ready"}
    /\ \E i, j \in DOMAIN uplink.calls :
          /\ uplink.calls[i].w = 1 /\ uplink.calls[i].serviceName = "logger"
          /\ uplink.calls[i].served = "UPLINK_RESPONSE"
          /\ uplink.calls[i].invoked = "a"
          /\ uplink.calls[j].w = 2 /\ uplink.calls[j].serviceName = "logger"
          /\ uplink.calls[j].served = "UPLINK_RESPONSE"
          /\ uplink.calls[j].invoked = "b"

=============================================================================
